---- MODULE Spec2Model ----
(***************************************************************************)
(* Model of packetbeat's MongoDB protocol module (protos/mongodb):         *)
(* Mongodb.Parse and its per-direction streams, handleMongodb, the         *)
(* request/response correlator over transactionsMap, and the timeout       *)
(* callbacks armed with time.AfterFunc.                                     *)
(*                                                                         *)
(* Two execution contexts exist in the code: the packet path (one thread   *)
(* running Parse and the handlers it calls) and one goroutine per fired    *)
(* timer running expireTransaction.  The code takes no lock, so a handler  *)
(* is modelled as the sequence of its accesses to the shared table, and a  *)
(* timer callback may run between any two of them.  (The Go runtime may    *)
(* also abort the process when it detects two overlapping map accesses;    *)
(* the model covers the executions in which the process keeps running.)    *)
(*                                                                         *)
(* Time: timestamps are nanoseconds.  A timer fires at some moment after   *)
(* it is armed; the model does not measure the 10 s delay.                 *)
(***************************************************************************)
EXTENDS Integers, Sequences, FiniteSets

----------------------------------------------------------------------------
(* Bounds of the model *)

\* number of handleMongodb calls made directly (specification Spec)
MaxMsgs == 3

\* number of Parse calls (specification ParseSpec)
MaxPackets == 3

----------------------------------------------------------------------------
(* Constants of the program *)

NIL == "nil"

\* tcp.TcpDirectionReverse / tcp.TcpDirectionOriginal
TcpDirectionReverse == 0
TcpDirectionOriginal == 1
Dirs == {TcpDirectionReverse, TcpDirectionOriginal}

\* capture times advance by one and a half milliseconds per delivery
Tick == 1500000

NanosPerMilli == 1000000

MaxInt32 == 2147483647

\* the connections under observation: same hosts, different client port
Conns == {1, 2}

\* the connections whose packets Parse is called with
ParseConns == {1}

\* common.TcpTuple of a connection; the same tuple is passed to Parse for
\* both directions of the connection
TcpTupleOf(c) ==
    [Src_ip |-> "10.0.0.1", Src_port |-> 1000 + c,
     Dst_ip |-> "10.0.0.2", Dst_port |-> 27017, stream_id |-> c]

\* TcpTuple.Hashable(): the raw form of the tuple, one key per connection
Hashable(t) == <<t.Src_ip, t.Src_port, t.Dst_ip, t.Dst_port, t.stream_id>>

----------------------------------------------------------------------------
(* Wire messages.  The unit of the model's wire is one 32-bit word: the    *)
(* header is messageLength, requestId, responseTo, opCode, and the body of *)
(* the modelled messages is one word.                                       *)

HeaderLen == 4

OP_REPLY == 1
OP_MSG == 1000
OP_INSERT == 2002
OP_RESERVED == 2003
OP_QUERY == 2004

\* OpCodes: the operation codes the decoder accepts (2003 is in the table
\* but has no decoder)
OpCodes == {1, 1000, 2001, 2002, 2003, 2004, 2005, 2006, 2007}

\* UserCommands, by position
UserCommands == <<"aggregate", "count", "distinct", "group">>

EmptyMap == [k \in {} |-> ""]

\* a query whose document's first key is "count"
WireQuery == <<5, 11, 0, OP_QUERY, 2>>
\* an insert
WireInsert == <<5, 12, 0, OP_INSERT, 0>>
\* a message of the header alone, from which no field is extracted
WireBare == <<4, 13, 0, OP_MSG>>
\* a reply without an error, a reply whose document carries $err
WireReplyOk == <<5, 21, 11, OP_REPLY, 0>>
WireReplyErr == <<5, 22, 12, OP_REPLY, 1>>

\* the messages handed to handleMongodb directly
WireMsgs == {WireInsert, WireBare, WireReplyOk, WireReplyErr}

\* the direct calls of handleMongodb, <<connection, direction, message>>:
\* every message on either direction of the first connection, and one
\* request and one response, on opposite directions, of the second
Calls ==
    ({1} \X {0, 1} \X WireMsgs)
    \cup {<<2, 1, WireInsert>>, <<2, 0, WireReplyOk>>}

\* The fields the decoder fills from a complete message w (Len(w) is its
\* messageLength and its opcode is one the decoder handles).
DecodeFields(w) ==
    LET op == w[4]
        b == IF Len(w) > HeaderLen THEN w[5] ELSE 0
    IN CASE op = OP_REPLY ->
              [IsResponse |-> TRUE, method |-> "",
               error |-> IF b = 1 THEN "not master" ELSE "",
               event |-> [k \in {"numberReturned", "documents"} |->
                            IF k = "numberReturned" THEN "1" ELSE "reply-doc"]]
         [] op = OP_QUERY ->
              [IsResponse |-> FALSE,
               method |-> IF b \in 1..Len(UserCommands)
                          THEN UserCommands[b] ELSE "query",
               error |-> "",
               event |-> [k \in {"fullCollectionName", "query"} |->
                            IF k = "fullCollectionName" THEN "db.users"
                            ELSE "query-doc"]]
         [] op = OP_INSERT ->
              [IsResponse |-> FALSE, method |-> "insert", error |-> "",
               event |-> [k \in {"fullCollectionName", "documents"} |->
                            IF k = "fullCollectionName" THEN "db.log"
                            ELSE "insert-doc"]]
         [] OTHER ->
              [IsResponse |-> FALSE, method |-> "msg", error |-> "",
               event |-> EmptyMap]

----------------------------------------------------------------------------
VARIABLES
    transactionsMap,  \* Mongodb.transactionsMap: key -> transaction (a pointer)
    transactions,     \* the MongodbTransaction objects, by pointer
    timers,           \* the time.Timer objects armed so far, by pointer
    results,          \* Mongodb.results: whether a channel is attached, and
                      \* the events sent on it
    warns,            \* logp.Warn calls, counted per message text
    pc,               \* where the packet path is
    cur,              \* the locals of the handler in progress
    nmsgs,            \* handleMongodb calls so far
    priv,             \* per connection, mongodbPrivateData.Data
    pkt,              \* the locals of the Parse call in progress
    npkts,            \* Parse calls so far
    sinceReq,         \* history: per key, the request handled last and not
                      \* answered since, and whether a timeout ran since
    expired,          \* history: the entries removed by timeout callbacks
    superseded,       \* history: <<first, second>> for each request handled
                      \* after another with no response in between
    dropLog,          \* history: per connection and direction, the last
                      \* discard of the stream and what followed
    streamLog         \* history: per connection and direction, the words
                      \* passed to Parse, how many of them came before the
                      \* current stream, how many the current stream's
                      \* completed messages took, and the messages handed on

corrVars == <<transactionsMap, transactions, timers, results, warns>>
threadVars == <<pc, cur, nmsgs>>
parseVars == <<priv, pkt, npkts>>
histVars == <<sinceReq, expired, superseded>>
vars == <<transactionsMap, transactions, timers, results, warns, pc, cur,
          nmsgs, priv, pkt, npkts, sinceReq, expired, superseded, dropLog,
          streamLog>>

Keys == {Hashable(TcpTupleOf(c)) : c \in Conns}

NoQuiet == [req |-> [id |-> 0], timeout |-> FALSE]

\* no message, and the nil pointer to a transaction or a timer
NoMsg == [id |-> 0]
NoCur == [msg |-> NoMsg, trans |-> 0, ret |-> "direct"]
NoEndpoint == [Ip |-> "", Port |-> 0]

NoPkt == [conn |-> 0, dir |-> 0, Payload |-> <<>>, Ts |-> 0]

NoLog == [fed |-> <<>>, base |-> 0, consumed |-> 0, handed |-> <<>>]

\* a Go map with key k set to v, and with key k deleted
MapSet(m, k, v) == [x \in DOMAIN m \cup {k} |-> IF x = k THEN v ELSE m[x]]
MapDelete(m, k) == [x \in DOMAIN m \ {k} |-> m[x]]

----------------------------------------------------------------------------
(* The correlator *)

\* the connection a message travelled on (for the history variables)
ConnKey(msg) == Hashable(msg.TcpTuple)

\* a key that tells the two directions of a connection apart
TransKeyWithDirection(msg) == Hashable(msg.TcpTuple) \o <<msg.Direction>>

\* the key both handlers look the transaction up with
TransKey(msg) == Hashable(msg.TcpTuple)

\* trans.Src and trans.Dst, swapped for a message of the reverse direction
\* (the process names come from procs.ProcWatcher, outside this module)
Endpoints(msg) ==
    LET src == [Ip |-> msg.TcpTuple.Src_ip, Port |-> msg.TcpTuple.Src_port]
        dst == [Ip |-> msg.TcpTuple.Dst_ip, Port |-> msg.TcpTuple.Dst_port]
    IN IF msg.Direction = TcpDirectionReverse
       THEN [Src |-> dst, Dst |-> src]
       ELSE [Src |-> src, Dst |-> dst]

\* a merge in which the stored value wins a collision
MergeEventKeepStored(stored, incoming) ==
    [k \in DOMAIN stored \cup DOMAIN incoming |->
        IF k \in DOMAIN stored THEN stored[k] ELSE incoming[k]]

\* for k, v := range msg.event { trans.event[k] = v }
MergeEvent(stored, incoming) ==
    [k \in DOMAIN stored \cup DOMAIN incoming |->
        IF k \in DOMAIN incoming THEN incoming[k] ELSE stored[k]]

\* Go's integer division truncates toward zero
TruncDiv(a, b) == IF a >= 0 THEN a \div b ELSE -((-a) \div b)

\* int32(x) of a 64-bit x: x modulo 2^32, as a signed value
Int32(x) ==
    IF x >= -MaxInt32 - 1 /\ x <= MaxInt32 THEN x
    ELSE ((x + MaxInt32 + 1) % (2 * (MaxInt32 + 1))) - MaxInt32 - 1

\* int32(msg.Ts.Sub(trans.ts).Nanoseconds() / 1e6)
ResponseTimeOf(respTs, reqTs) == Int32(TruncDiv(respTs - reqTs, NanosPerMilli))

\* timer.Stop(): a timer that has not fired yet will not fire; one that has
\* fired (its callback is running or about to run) is not affected
StopTimer(tm, id) ==
    IF id # 0 /\ tm[id].state = "armed"
    THEN [tm EXCEPT ![id].state = "stopped"]
    ELSE tm

\* a timer that never fires
AfterFuncNeverFires(tm, id, tid) ==
    MapSet(tm, id, [state |-> "stopped", trans |-> tid])

\* time.AfterFunc(TransactionTimeout, func() { mongodb.expireTransaction(trans) })
AfterFunc(tm, id, tid) == MapSet(tm, id, [state |-> "armed", trans |-> tid])

\* a request handler that leaves the transaction's Mongodb map nil
RequestFieldsLeavesNil(t, msg) ==
    [t EXCEPT !.event = msg.event,
              !.method = msg.method,
              !.ts = msg.Ts,
              !.Src = Endpoints(msg).Src,
              !.Dst = Endpoints(msg).Dst,
              !.req = msg]

\* a request handler that keeps the method and the fields of a request
\* already stored
RequestFieldsKeepFirst(t, msg) ==
    [t EXCEPT !.Mongodb = "MapStr{}",
              !.event = IF t.req.id # 0 THEN t.event ELSE msg.event,
              !.method = IF t.req.id # 0 THEN t.method ELSE msg.method,
              !.ts = msg.Ts,
              !.Src = Endpoints(msg).Src,
              !.Dst = Endpoints(msg).Dst,
              !.req = msg]

\* the fields receivedMongodbRequest stores in the transaction
RequestFields(t, msg) ==
    [t EXCEPT !.Mongodb = "MapStr{}",
              !.event = msg.event,
              !.method = msg.method,
              !.ts = msg.Ts,
              !.Src = Endpoints(msg).Src,
              !.Dst = Endpoints(msg).Dst,
              !.req = msg]

\* &MongodbTransaction{Type: "mongodb", tuple: tuple}
NewTransaction(tuple) ==
    [tuple |-> tuple, Mongodb |-> NIL, event |-> EmptyMap, method |-> "",
     ts |-> 0, Src |-> NoEndpoint, Dst |-> NoEndpoint, timer |-> 0,
     error |-> "", ResponseTime |-> 0, req |-> NoMsg, closed |-> FALSE]

\* the fields receivedMongodbResponse stores before publishing
ResponseFields(t, msg) ==
    [t EXCEPT !.event = MergeEvent(t.event, msg.event),
              !.error = msg.error,
              !.ResponseTime = ResponseTimeOf(msg.Ts, t.ts)]

FullCollectionName(t) ==
    IF "fullCollectionName" \in DOMAIN t.event
    THEN t.event["fullCollectionName"] ELSE ""

\* publishTransaction: t.event["error"] = t.error when an error is recorded
WithError(t) ==
    IF t.error = "" THEN t
    ELSE [t EXCEPT !.event = MapSet(@, "error", t.error)]

\* the event publishTransaction builds from transaction t; req and resp
\* record which request and response messages it came from
EventOf(t, resp) ==
    [type |-> "mongodb",
     status |-> IF t.error = "" THEN "OK" ELSE "Error",
     mongodb |-> t.event,
     method |-> t.method,
     query |-> <<t.method, FullCollectionName(t)>>,
     responsetime |-> t.ResponseTime,
     bytes_in |-> 0,
     bytes_out |-> 0,
     timestamp |-> t.ts,
     src |-> t.Src,
     dst |-> t.Dst,
     req |-> t.req,
     resp |-> resp]

\* publishTransaction: nothing is sent when no channel is attached
\* a publication that does not look whether a channel is attached
PublishAlways(res, t, resp) ==
    [res EXCEPT !.sent = Append(@, EventOf(WithError(t), resp))]

PublishTransaction(res, t, resp) ==
    IF ~res.attached THEN res
    ELSE [res EXCEPT !.sent = Append(@, EventOf(WithError(t), resp))]

Lookup(msg) ==
    IF TransKey(msg) \in DOMAIN transactionsMap
    THEN transactionsMap[TransKey(msg)] ELSE 0

\* whether receivedMongodbResponse(msg) returns before it merges anything
IsOrphan(msg) ==
    \/ Lookup(msg) = 0
    \/ transactions[Lookup(msg)].Mongodb = NIL

\* receivedMongodbRequest up to the point where the transaction's fields
\* are stored: lookup, warning or insertion, assignment of the fields
RequestLookup(msg, ret) ==
    LET key == TransKey(msg)
        found == Lookup(msg) # 0
        tid == IF found THEN Lookup(msg) ELSE msg.id
        t == IF found THEN transactions[tid] ELSE NewTransaction(msg.TcpTuple)
    IN /\ warns' = IF found /\ t.Mongodb # NIL
                   THEN [warns EXCEPT !.twoRequests = @ + 1] ELSE warns
       /\ transactionsMap' = IF found THEN transactionsMap
                             ELSE MapSet(transactionsMap, key, tid)
       /\ transactions' = MapSet(transactions, tid, RequestFields(t, msg))
       /\ cur' = [msg |-> msg, trans |-> tid, ret |-> ret]
       /\ sinceReq' = [sinceReq EXCEPT ![ConnKey(msg)] =
                                        [req |-> msg, timeout |-> FALSE]]
       /\ superseded' = IF sinceReq[ConnKey(msg)].req.id # 0
                        THEN superseded \cup {<<sinceReq[ConnKey(msg)].req, msg>>}
                        ELSE superseded
       /\ UNCHANGED <<timers, results, expired>>

\* a response handler that opens an entry for a response it cannot pair
ResponseLookupInserts(msg, ret) ==
    /\ warns' = IF IsOrphan(msg)
                THEN [warns EXCEPT !.unknownResponse = @ + 1] ELSE warns
    /\ cur' = [msg |-> msg, ret |-> ret,
               trans |-> IF IsOrphan(msg) THEN 0 ELSE Lookup(msg)]
    /\ sinceReq' = IF IsOrphan(msg)
                   THEN [sinceReq EXCEPT ![ConnKey(msg)] = NoQuiet]
                   ELSE sinceReq
    /\ transactionsMap' = IF Lookup(msg) = 0
                          THEN MapSet(transactionsMap, TransKey(msg), msg.id)
                          ELSE transactionsMap
    /\ transactions' = IF Lookup(msg) = 0
                       THEN MapSet(transactions, msg.id, NewTransaction(msg.TcpTuple))
                       ELSE transactions
    /\ UNCHANGED <<timers, results, expired, superseded>>

\* receivedMongodbResponse up to its two early returns
ResponseLookup(msg, ret) ==
    LET key == ConnKey(msg)
    IN /\ warns' = IF IsOrphan(msg)
                   THEN [warns EXCEPT !.unknownResponse = @ + 1] ELSE warns
       /\ cur' = [msg |-> msg, ret |-> ret,
                  trans |-> IF IsOrphan(msg) THEN 0 ELSE Lookup(msg)]
       /\ sinceReq' = IF IsOrphan(msg) THEN [sinceReq EXCEPT ![key] = NoQuiet]
                      ELSE sinceReq
       /\ UNCHANGED <<transactionsMap, transactions, timers, results,
                      expired, superseded>>

\* handleMongodb(m, tcptuple, dir) up to the handler's first return or
\* its first wait for the timer
Dispatch(msg, ret) ==
    /\ nmsgs' = nmsgs + 1
    /\ IF msg.IsResponse THEN ResponseLookup(msg, ret)
       ELSE RequestLookup(msg, ret)

\* where the packet path is after Dispatch(msg): "ret" when the handler has
\* returned
PcAfterDispatch(msg) ==
    IF ~msg.IsResponse THEN "req_timer"
    ELSE IF IsOrphan(msg) THEN "ret" ELSE "resp_publish"

----------------------------------------------------------------------------
(* The streams *)

\* tcp.TCP_MAX_DATA_IN_STREAM, in words, scaled to the model's messages
TCP_MAX_DATA_IN_STREAM == 8

\* a ceiling check that lets one unit too many through
TooLargeOffByOne(data) == Len(data) > TCP_MAX_DATA_IN_STREAM + 1

\* len(priv.Data[dir].data) > tcp.TCP_MAX_DATA_IN_STREAM
TooLarge(data) == Len(data) > TCP_MAX_DATA_IN_STREAM

\* &MongodbMessage{Ts: ts}
NewMessage(ts) ==
    [Ts |-> ts, messageLength |-> 0, IsResponse |-> FALSE, method |-> "",
     error |-> "", event |-> EmptyMap]

\* &MongodbStream{tcptuple: tcptuple, data: payload, message: &MongodbMessage{Ts: ts}}
NewStream(payload, ts) == [data |-> payload, message |-> NewMessage(ts)]

\* mongodbMessageParser(stream): ok, complete, and the message as the
\* decoder leaves it
MessageParser(stream) ==
    LET d == stream.data
        m == stream.message
    IN IF Len(d) < 1 THEN [ok |-> TRUE, complete |-> FALSE, message |-> m]
       ELSE IF d[1] < HeaderLen
            THEN [ok |-> FALSE, complete |-> FALSE, message |-> m]
       ELSE IF Len(d) < d[1]
            THEN [ok |-> TRUE, complete |-> FALSE, message |-> m]
       ELSE IF d[4] \notin OpCodes \/ d[4] = OP_RESERVED
            THEN [ok |-> FALSE, complete |-> FALSE, message |-> m]
       ELSE LET f == DecodeFields(SubSeq(d, 1, d[1]))
            IN [ok |-> TRUE, complete |-> TRUE,
                message |-> [m EXCEPT !.messageLength = d[1],
                                      !.IsResponse = f.IsResponse,
                                      !.method = f.method,
                                      !.error = f.error,
                                      !.event = f.event]]

\* a reset that drops one word more than the message
PrepareOneTooMany(stream) ==
    [data |-> SubSeq(stream.data, stream.message.messageLength + 2,
                     Len(stream.data)),
     message |-> NewMessage(stream.message.Ts)]

\* a reset that drops all pending words
PrepareDropsAll(stream) ==
    [data |-> <<>>, message |-> NewMessage(stream.message.Ts)]

\* a reset that leaves the pending words as they are
PrepareKeepsAll(stream) ==
    [data |-> stream.data, message |-> NewMessage(stream.message.Ts)]

\* stream.PrepareForNewMessage()
PrepareForNewMessage(stream) ==
    [data |-> SubSeq(stream.data, stream.message.messageLength + 1,
                     Len(stream.data)),
     message |-> NewMessage(stream.message.Ts)]

\* the message handleMongodb passes on: m with TcpTuple and Direction set
\* (id numbers the calls, pktno is the Parse call that completed it)
Handed(m, c, d, id, pktno) ==
    [id |-> id, pktno |-> pktno,
     Ts |-> m.Ts, TcpTuple |-> TcpTupleOf(c), Direction |-> d,
     messageLength |-> m.messageLength, IsResponse |-> m.IsResponse,
     method |-> m.method, error |-> m.error, event |-> m.event]

\* the handler returns to its caller: to Parse's loop, which resets the
\* message, or to a direct caller of handleMongodb
Return ==
    IF cur.ret = "parse"
    THEN /\ pc' = "loop"
         /\ priv' = [priv EXCEPT ![pkt.conn][pkt.dir] =
                        <<PrepareForNewMessage(@[1])>>]
         /\ streamLog' = [streamLog EXCEPT ![pkt.conn][pkt.dir].consumed =
                             @ + cur.msg.messageLength]
         /\ UNCHANGED <<pkt, npkts, dropLog>>
    ELSE /\ pc' = "idle"
         /\ UNCHANGED <<priv, pkt, npkts, dropLog, streamLog>>

----------------------------------------------------------------------------
(* Actions *)

Init ==
    /\ transactionsMap = [k \in {} |-> 0]
    /\ transactions = [i \in {} |-> 0]
    /\ timers = [i \in {} |-> 0]
    /\ results = [attached |-> TRUE, sent |-> <<>>]
    /\ warns = [twoRequests |-> 0, unknownResponse |-> 0]
    /\ pc = "idle"
    /\ cur = NoCur
    /\ nmsgs = 0
    /\ priv = [c \in Conns |-> [d \in Dirs |-> <<>>]]
    /\ pkt = NoPkt
    /\ npkts = 0
    /\ sinceReq = [k \in Keys |-> NoQuiet]
    /\ expired = {}
    /\ superseded = {}
    /\ dropLog = [c \in Conns |-> [d \in Dirs |-> "none"]]
    /\ streamLog = [c \in Conns |-> [d \in Dirs |-> NoLog]]

\* handleMongodb called with the decoded message w of direction d of
\* connection c
HandleMongodb(c, d, w) ==
    LET ts == (nmsgs + 1) * Tick
        m == MessageParser(NewStream(w, ts)).message
        msg == Handed(m, c, d, nmsgs + 1, 0)
    IN /\ pc = "idle"
       /\ nmsgs < MaxMsgs
       /\ Dispatch(msg, "direct")
       /\ pc' = IF PcAfterDispatch(msg) = "ret" THEN "idle"
                ELSE PcAfterDispatch(msg)
       /\ UNCHANGED <<priv, pkt, npkts, dropLog, streamLog>>

\* receivedMongodbRequest, from trans.timer.Stop() to its return
RequestArmTimer ==
    LET tid == cur.trans
        id == cur.msg.id
    IN /\ pc = "req_timer"
       /\ timers' = AfterFunc(StopTimer(timers, transactions[tid].timer), id, tid)
       /\ transactions' = [transactions EXCEPT ![tid].timer = id]
       /\ Return
       /\ UNCHANGED <<transactionsMap, results, warns, cur, nmsgs,
                      sinceReq, expired, superseded>>

\* receivedMongodbResponse, from the merge of the fields to its return
ResponsePublish ==
    LET tid == cur.trans
        t == ResponseFields(transactions[tid], cur.msg)
        key == Hashable(t.tuple)
    IN /\ pc = "resp_publish"
       /\ transactions' = [transactions EXCEPT ![tid] =
                             [IF results.attached THEN WithError(t) ELSE t
                                EXCEPT !.closed = TRUE]]
       /\ results' = PublishTransaction(results, t, cur.msg)
       /\ transactionsMap' = MapDelete(transactionsMap, key)
       /\ timers' = StopTimer(timers, t.timer)
       /\ sinceReq' = [sinceReq EXCEPT ![key] = NoQuiet]
       /\ Return
       /\ UNCHANGED <<warns, cur, nmsgs, expired, superseded>>

\* the delay of timer id elapses: its callback is started in a goroutine
TimerFire(id) ==
    /\ id \in DOMAIN timers
    /\ timers[id].state = "armed"
    /\ timers' = [timers EXCEPT ![id].state = "fired"]
    /\ UNCHANGED <<transactionsMap, transactions, results, warns, pc, cur,
                   nmsgs, priv, pkt, npkts, sinceReq, expired, superseded,
                   dropLog, streamLog>>

\* the key of the connection seen from its other end
ExpireKeyReversed(trans) ==
    Hashable([trans.tuple EXCEPT !.Src_ip = trans.tuple.Dst_ip,
                                 !.Src_port = trans.tuple.Dst_port,
                                 !.Dst_ip = trans.tuple.Src_ip,
                                 !.Dst_port = trans.tuple.Src_port])

\* the key expireTransaction(trans) deletes
ExpireKey(trans) == Hashable(trans.tuple)

\* the callback of timer id runs: expireTransaction(trans)
ExpireTransaction(id) ==
    LET trans == transactions[timers[id].trans]
        key == Hashable(trans.tuple)
        present == key \in DOMAIN transactionsMap
    IN /\ id \in DOMAIN timers
       /\ timers[id].state = "fired"
       /\ timers' = [timers EXCEPT ![id].state = "done"]
       /\ transactionsMap' = MapDelete(transactionsMap, ExpireKey(trans))
       /\ expired' = IF present
                     THEN expired \cup
                          {[victim |-> transactions[transactionsMap[key]].req.id,
                            timer |-> id,
                            pc |-> IF pc \in {"req_timer", "resp_publish"}
                                      /\ ConnKey(cur.msg) = key
                                   THEN pc ELSE "idle"]}
                     ELSE expired
       /\ sinceReq' = IF sinceReq[key].req.id # 0
                      THEN [sinceReq EXCEPT ![key].timeout = TRUE]
                      ELSE sinceReq
       /\ UNCHANGED <<transactions, results, warns, pc, cur, nmsgs, priv,
                      pkt, npkts, superseded, dropLog, streamLog>>

\* the payloads a packet may carry: whole messages, the two parts of a
\* message split after its header, and a message with an unknown opcode
Payloads ==
    {WireQuery, WireReplyOk, SubSeq(WireQuery, 1, 4), SubSeq(WireQuery, 5, 5),
     <<4, 31, 0, 9999>>}

\* a Parse whose oversize discard takes the other direction's stream too
ParseDropsBoth(c, d, payload) ==
    LET ts == (npkts + 1) * Tick
        old == priv[c][d]
        appended == [old[1] EXCEPT !.data = @ \o payload]
        oversize == old # <<>> /\ TooLarge(appended.data)
    IN /\ pc = "idle"
       /\ npkts < MaxPackets
       /\ npkts' = npkts + 1
       /\ pkt' = [conn |-> c, dir |-> d, Payload |-> payload, Ts |-> ts]
       /\ priv' = IF oversize THEN [priv EXCEPT ![c] = [x \in Dirs |-> <<>>]]
                  ELSE [priv EXCEPT ![c][d] =
                          IF old = <<>> THEN <<NewStream(payload, ts)>>
                          ELSE <<appended>>]
       /\ pc' = IF oversize THEN "idle" ELSE "loop"
       /\ dropLog' = [dropLog EXCEPT ![c][d] =
                        IF oversize THEN "oversize"
                        ELSE IF old = <<>> /\ @ = "oversize" THEN "fresh"
                        ELSE @]
       /\ streamLog' = [streamLog EXCEPT ![c][d] =
                          IF old = <<>>
                          THEN [@ EXCEPT !.fed = @ \o payload,
                                         !.base = Len(streamLog[c][d].fed),
                                         !.consumed = 0]
                          ELSE [@ EXCEPT !.fed = @ \o payload]]
       /\ UNCHANGED <<transactionsMap, transactions, timers, results, warns,
                      cur, nmsgs, sinceReq, expired, superseded>>

\* Parse(pkt, tcptuple, dir, private), up to its loop
Parse(c, d, payload) ==
    LET ts == (npkts + 1) * Tick
        old == priv[c][d]
        appended == [old[1] EXCEPT !.data = @ \o payload]
        oversize == old # <<>> /\ TooLarge(appended.data)
    IN /\ pc = "idle"
       /\ npkts < MaxPackets
       /\ npkts' = npkts + 1
       /\ pkt' = [conn |-> c, dir |-> d, Payload |-> payload, Ts |-> ts]
       /\ priv' = [priv EXCEPT ![c][d] =
                     IF old = <<>> THEN <<NewStream(payload, ts)>>
                     ELSE IF oversize THEN <<>>
                     ELSE <<appended>>]
       /\ pc' = IF oversize THEN "idle" ELSE "loop"
       /\ dropLog' = [dropLog EXCEPT ![c][d] =
                        IF oversize THEN "oversize"
                        ELSE IF old = <<>> /\ @ = "oversize" THEN "fresh"
                        ELSE @]
       /\ streamLog' = [streamLog EXCEPT ![c][d] =
                          IF old = <<>>
                          THEN [@ EXCEPT !.fed = @ \o payload,
                                         !.base = Len(streamLog[c][d].fed),
                                         !.consumed = 0]
                          ELSE [@ EXCEPT !.fed = @ \o payload]]
       /\ UNCHANGED <<transactionsMap, transactions, timers, results, warns,
                      cur, nmsgs, sinceReq, expired, superseded>>

\* a loop that discards the stream when the decoder needs more data
ParseLoopDropsPartial ==
    LET c == pkt.conn
        d == pkt.dir
        stream == priv[c][d][1]
        s1 == IF stream.message = NoMsg
              THEN [stream EXCEPT !.message = NewMessage(pkt.Ts)] ELSE stream
        r == MessageParser(s1)
        filled == [s1 EXCEPT !.message = r.message]
        msg == Handed(r.message, c, d, nmsgs + 1, npkts)
        log(v) == [dropLog EXCEPT ![c][d] = IF @ = "fresh" THEN v ELSE @]
    IN /\ pc = "loop"
       /\ UNCHANGED <<pkt, npkts>>
       /\ IF Len(stream.data) = 0
          THEN /\ pc' = "idle"
               /\ UNCHANGED <<transactionsMap, transactions, timers, results,
                              warns, cur, nmsgs, priv, sinceReq, expired,
                              superseded, dropLog, streamLog>>
          ELSE IF ~r.ok
          THEN /\ pc' = "idle"
               /\ priv' = [priv EXCEPT ![c][d] = <<>>]
               /\ dropLog' = log("none")
               /\ UNCHANGED <<transactionsMap, transactions, timers, results,
                              warns, cur, nmsgs, sinceReq, expired, superseded,
                              streamLog>>
          ELSE IF ~r.complete
          THEN /\ pc' = "idle"
               /\ priv' = [priv EXCEPT ![c][d] = <<>>]
               /\ dropLog' = log("none")
               /\ UNCHANGED <<transactionsMap, transactions, timers, results,
                              warns, cur, nmsgs, sinceReq, expired, superseded,
                              streamLog>>
          ELSE /\ Dispatch(msg, "parse")
               /\ dropLog' = log("recovered")
               /\ IF PcAfterDispatch(msg) = "ret"
                  THEN /\ pc' = "loop"
                       /\ priv' = [priv EXCEPT ![c][d] =
                                     <<PrepareForNewMessage(filled)>>]
                       /\ streamLog' = [streamLog EXCEPT ![c][d] =
                                          [@ EXCEPT !.handed = Append(@, msg),
                                                    !.consumed = @ + msg.messageLength]]
                  ELSE /\ pc' = PcAfterDispatch(msg)
                       /\ priv' = [priv EXCEPT ![c][d] = <<filled>>]
                       /\ streamLog' = [streamLog EXCEPT ![c][d].handed =
                                          Append(@, msg)]

\* one iteration of Parse's loop, up to the handler's first return or its
\* first wait for the timer
ParseLoop ==
    LET c == pkt.conn
        d == pkt.dir
        stream == priv[c][d][1]
        s1 == IF stream.message = NoMsg
              THEN [stream EXCEPT !.message = NewMessage(pkt.Ts)] ELSE stream
        r == MessageParser(s1)
        filled == [s1 EXCEPT !.message = r.message]
        msg == Handed(r.message, c, d, nmsgs + 1, npkts)
        log(v) == [dropLog EXCEPT ![c][d] = IF @ = "fresh" THEN v ELSE @]
    IN /\ pc = "loop"
       /\ UNCHANGED <<pkt, npkts>>
       /\ IF Len(stream.data) = 0
          THEN /\ pc' = "idle"
               /\ UNCHANGED <<transactionsMap, transactions, timers, results,
                              warns, cur, nmsgs, priv, sinceReq, expired,
                              superseded, dropLog, streamLog>>
          ELSE IF ~r.ok
          THEN /\ pc' = "idle"
               /\ priv' = [priv EXCEPT ![c][d] = <<>>]
               /\ dropLog' = log("none")
               /\ UNCHANGED <<transactionsMap, transactions, timers, results,
                              warns, cur, nmsgs, sinceReq, expired, superseded,
                              streamLog>>
          ELSE IF ~r.complete
          THEN /\ pc' = "idle"
               /\ priv' = [priv EXCEPT ![c][d] = <<filled>>]
               /\ dropLog' = log("none")
               /\ UNCHANGED <<transactionsMap, transactions, timers, results,
                              warns, cur, nmsgs, sinceReq, expired, superseded,
                              streamLog>>
          ELSE /\ Dispatch(msg, "parse")
               /\ dropLog' = log("recovered")
               /\ IF PcAfterDispatch(msg) = "ret"
                  THEN /\ pc' = "loop"
                       /\ priv' = [priv EXCEPT ![c][d] =
                                     <<PrepareForNewMessage(filled)>>]
                       /\ streamLog' = [streamLog EXCEPT ![c][d] =
                                          [@ EXCEPT !.handed = Append(@, msg),
                                                    !.consumed = @ + msg.messageLength]]
                  ELSE /\ pc' = PcAfterDispatch(msg)
                       /\ priv' = [priv EXCEPT ![c][d] = <<filled>>]
                       /\ streamLog' = [streamLog EXCEPT ![c][d].handed =
                                          Append(@, msg)]

Next ==
    \/ \E call \in Calls : HandleMongodb(call[1], call[2], call[3])
    \/ RequestArmTimer
    \/ ResponsePublish
    \/ \E id \in DOMAIN timers : TimerFire(id)
    \/ \E id \in DOMAIN timers : ExpireTransaction(id)

Spec == Init /\ [][Next]_vars

ParseNext ==
    \/ \E c \in ParseConns, d \in Dirs, p \in Payloads : Parse(c, d, p)
    \/ ParseLoop
    \/ RequestArmTimer
    \/ ResponsePublish
    \/ \E id \in DOMAIN timers : TimerFire(id)
    \/ \E id \in DOMAIN timers : ExpireTransaction(id)

ParseSpec == Init /\ [][ParseNext]_vars

\* the calls of the specification with fairness: one request and one
\* response per connection
LiveCalls ==
    {<<1, 1, WireInsert>>, <<1, 0, WireReplyOk>>,
     <<2, 1, WireInsert>>, <<2, 0, WireReplyOk>>}

FairNext ==
    \/ \E call \in LiveCalls : HandleMongodb(call[1], call[2], call[3])
    \/ RequestArmTimer
    \/ ResponsePublish
    \/ \E id \in DOMAIN timers : TimerFire(id)
    \/ \E id \in DOMAIN timers : ExpireTransaction(id)

\* a handler that has started runs to its end, an armed timer fires, and
\* a started callback runs
FairSpec ==
    /\ Init
    /\ [][FairNext]_vars
    /\ WF_vars(RequestArmTimer)
    /\ WF_vars(ResponsePublish)
    /\ WF_vars(\E id \in DOMAIN timers : TimerFire(id))
    /\ WF_vars(\E id \in DOMAIN timers : ExpireTransaction(id))

\* Init(test_mode, nil): no results channel is attached
InitNoSink ==
    /\ transactionsMap = [k \in {} |-> 0]
    /\ transactions = [i \in {} |-> 0]
    /\ timers = [i \in {} |-> 0]
    /\ results = [attached |-> FALSE, sent |-> <<>>]
    /\ warns = [twoRequests |-> 0, unknownResponse |-> 0]
    /\ pc = "idle"
    /\ cur = NoCur
    /\ nmsgs = 0
    /\ priv = [c \in Conns |-> [d \in Dirs |-> <<>>]]
    /\ pkt = NoPkt
    /\ npkts = 0
    /\ sinceReq = [k \in Keys |-> NoQuiet]
    /\ expired = {}
    /\ superseded = {}
    /\ dropLog = [c \in Conns |-> [d \in Dirs |-> "none"]]
    /\ streamLog = [c \in Conns |-> [d \in Dirs |-> NoLog]]

NoSinkSpec == InitNoSink /\ [][Next]_vars

\* a reply and a message with an unknown opcode, of the header alone
ShortReply == <<4, 23, 13, OP_REPLY>>
BadMsg == <<4, 31, 0, 9999>>

\* a query of two words more than the ceiling
LongQuery == <<10, 41, 0, OP_QUERY, 2, 0, 0, 0, 0, 0>>

\* the word streams of a direction: sequences of valid messages that fit
\* under the ceiling, one whose second message the decoder rejects, and a
\* message longer than the ceiling
ValidStreams == {WireBare \o ShortReply, ShortReply \o WireBare, WireQuery}
ByteStreams == ValidStreams \cup {WireBare \o BadMsg, LongQuery}

IsPrefix(a, b) == Len(a) <= Len(b) /\ SubSeq(b, 1, Len(a)) = a

\* Parse called with the next n words of stream s of direction d
ParseChunk(c, d, s, n) ==
    LET fed == streamLog[c][d].fed
    IN /\ IsPrefix(fed, s)
       /\ Len(fed) + n <= Len(s)
       /\ Parse(c, d, SubSeq(s, Len(fed) + 1, Len(fed) + n))

\* the direction whose stream is delivered in pieces
SplitDirs == {TcpDirectionOriginal}

\* the stream of a direction is delivered in packets cut at any word
SplitNext ==
    \/ \E c \in ParseConns, d \in SplitDirs, s \in ByteStreams :
          \E n \in 1..Len(s) : ParseChunk(c, d, s, n)
    \/ ParseLoop
    \/ RequestArmTimer
    \/ ResponsePublish
    \/ \E id \in DOMAIN timers : TimerFire(id)
    \/ \E id \in DOMAIN timers : ExpireTransaction(id)

SplitSpec == Init /\ [][SplitNext]_vars

\* a Parse call in progress goes on: its loop iterates and a handler it
\* called runs to its return
FairSplitSpec ==
    /\ SplitSpec
    /\ WF_vars(ParseLoop)
    /\ WF_vars(RequestArmTimer)
    /\ WF_vars(ResponsePublish)

----------------------------------------------------------------------------
(* Properties *)

Events == {results.sent[i] : i \in 1..Len(results.sent)}

\* a step that calls handleMongodb, with a response, with a request
DispatchStep == nmsgs' = nmsgs + 1
RespStep == DispatchStep /\ cur'.msg.IsResponse
ReqStep == DispatchStep /\ ~cur'.msg.IsResponse

\* the step that ends receivedMongodbResponse after a successful lookup
PublishStep == pc = "resp_publish" /\ pc' # "resp_publish"

\* the step in which the callback of timer id runs
ExpireStepOf(id) == timers[id].state = "fired" /\ timers'[id].state = "done"

\* on key k a request was handled, and since its handler was entered no
\* response was handled and no timeout callback ran for k
Clean(k) == sinceReq[k].req.id # 0 /\ ~sinceReq[k].timeout

\* C1: a request followed by a response on the same connection, with no
\* other request and no timeout callback since the request's handler was
\* entered, is found by the response's lookup whatever the two directions
\* are; the response handler then publishes exactly one record, which pairs
\* that request with that response, and leaves no entry for the connection;
\* the lookup key of a message does not change with its direction.
C1_Pairing ==
    [][/\ RespStep /\ Clean(ConnKey(cur'.msg))
            => /\ pc' = "resp_publish"
               /\ transactions[cur'.trans].req = sinceReq[ConnKey(cur'.msg)].req
       /\ PublishStep /\ Clean(ConnKey(cur.msg))
            => /\ Len(results'.sent) = Len(results.sent) + 1
               /\ results'.sent[Len(results'.sent)].req = sinceReq[ConnKey(cur.msg)].req
               /\ results'.sent[Len(results'.sent)].resp = cur.msg
               /\ ConnKey(cur.msg) \notin DOMAIN transactionsMap'
       /\ DispatchStep
            => \A d \in Dirs :
                 TransKey([cur'.msg EXCEPT !.Direction = d]) = TransKey(cur'.msg)
      ]_vars

\* a response handled on the direction opposite to its request's has just
\* been published, and the table holds nothing for the connection
C1_Paired ==
    /\ pc = "idle"
    /\ expired = {}
    /\ Len(results.sent) = 1
    /\ results.sent[1].resp = cur.msg
    /\ results.sent[1].req.Direction # cur.msg.Direction
    /\ ConnKey(cur.msg) \notin DOMAIN transactionsMap

\* message m finds no OPEN entry in the table
NotOpen(m) ==
    \/ ConnKey(m) \notin DOMAIN transactionsMap
    \/ transactions[transactionsMap[ConnKey(m)]].Mongodb = NIL

\* C2: a response handled while the table holds no OPEN entry for its
\* connection publishes nothing and changes neither the table, nor a
\* transaction, nor a timer.
C2_Orphan ==
    [][RespStep /\ NotOpen(cur'.msg)
         => /\ results' = results
            /\ transactionsMap' = transactionsMap
            /\ transactions' = transactions
            /\ timers' = timers]_vars

\* a response has just been ignored on a connection whose request was
\* answered before
C2_OrphanSeen ==
    /\ pc = "idle"
    /\ cur.msg.id # 0
    /\ cur.msg.IsResponse
    /\ cur.trans = 0
    /\ Len(results.sent) = 1
    /\ ConnKey(results.sent[1].resp) = ConnKey(cur.msg)
    /\ timers # <<>>

\* the removals in which the callback of a request's own timer ran before
\* a response handler had looked the request's entry up
OwnTimeouts == {e \in expired : e.victim = e.timer /\ e.pc # "resp_publish"}

\* C3: once the callback of a request's timer has run before any response
\* was handled for the connection, no record of that request is published,
\* and as long as no other request is handled on the connection the table
\* holds no entry for it (so a late response finds nothing).
C3_Eviction ==
    \A e \in OwnTimeouts :
        /\ \A ev \in Events : ev.req.id # e.victim
        /\ \A k \in Keys :
             sinceReq[k].req.id = e.victim => k \notin DOMAIN transactionsMap

\* a request timed out and the response that came late was ignored
C3_LateOrphan ==
    /\ pc = "idle"
    /\ cur.msg.id # 0
    /\ cur.msg.IsResponse
    /\ cur.trans = 0
    /\ results.sent = <<>>
    /\ \E e \in OwnTimeouts :
          /\ e.victim = cur.msg.id - 1
          /\ transactions[e.victim].tuple = cur.msg.TcpTuple

\* the endpoints of a record whose request is req
SrcOf(req) ==
    IF req.Direction = TcpDirectionReverse
    THEN [Ip |-> req.TcpTuple.Dst_ip, Port |-> req.TcpTuple.Dst_port]
    ELSE [Ip |-> req.TcpTuple.Src_ip, Port |-> req.TcpTuple.Src_port]
DstOf(req) ==
    IF req.Direction = TcpDirectionReverse
    THEN [Ip |-> req.TcpTuple.Src_ip, Port |-> req.TcpTuple.Src_port]
    ELSE [Ip |-> req.TcpTuple.Dst_ip, Port |-> req.TcpTuple.Dst_port]

\* a superseded request is never published, and a record published for a
\* superseding request carries that request's method, timestamp, endpoints
\* and fields, the fields merged with the response's
C4_Records ==
    /\ \A p \in superseded : \A ev \in Events : ev.req.id # p[1].id
    /\ \A ev \in Events :
         (\E p \in superseded : p[2] = ev.req)
           => /\ ev.method = ev.req.method
              /\ ev.timestamp = ev.req.Ts
              /\ ev.src = SrcOf(ev.req)
              /\ ev.dst = DstOf(ev.req)
              /\ DOMAIN ev.mongodb \subseteq
                    DOMAIN ev.req.event \cup DOMAIN ev.resp.event \cup {"error"}
              /\ \A k \in DOMAIN ev.req.event \ (DOMAIN ev.resp.event \cup {"error"}) :
                    k \in DOMAIN ev.mongodb /\ ev.mongodb[k] = ev.req.event[k]

\* C4 as claimed: every request handled after another request of the same
\* connection, with no response in between, raises exactly one warning.
C4_Original ==
    /\ []C4_Records
    /\ [][ReqStep /\ sinceReq[ConnKey(cur'.msg)].req.id # 0
            => warns'.twoRequests = warns.twoRequests + 1]_vars

\* C4, amended: a request handled after another request of the same
\* connection raises exactly one warning when neither a response nor a
\* timeout callback occurred on the connection since the first request's
\* handler was entered, and no warning otherwise; the first request is
\* never published and a record published for the second carries only the
\* second's method, fields, timestamp and endpoints.
C4_Superseding ==
    /\ []C4_Records
    /\ [][ReqStep
            => /\ warns'.twoRequests = warns.twoRequests
                      + (IF Clean(ConnKey(cur'.msg)) THEN 1 ELSE 0)
               /\ warns'.unknownResponse = warns.unknownResponse]_vars

\* a response was paired with the second of two requests that differ in
\* method and direction, after one warning
C4_SecondPublished ==
    /\ warns.twoRequests = 1
    /\ \E ev \in Events : \E p \in superseded :
          /\ p[2] = ev.req
          /\ p[1].method # p[2].method
          /\ p[1].Direction # p[2].Direction
          /\ p[1].Ts # p[2].Ts

\* C5: a timeout callback that runs after its transaction was removed by a
\* response does not change the table.
C5_StaleNoOp ==
    [][\A id \in DOMAIN timers :
          ExpireStepOf(id) /\ transactions[timers[id].trans].closed
             => transactionsMap' = transactionsMap]_vars

\* C6: no timeout callback removes an entry while a handler for the same
\* connection is between its lookup and its return; no request is both
\* removed by a timeout callback and published; an entry is removed by no
\* other timer than the one armed for its request.
C6_Atomic ==
    /\ \A e \in expired : e.pc = "idle"
    /\ \A e \in expired : \A ev \in Events : ev.req.id # e.victim
    /\ \A e \in expired : e.victim = e.timer

\* the request numbered r has its entry in the table
InTable(r) ==
    \E k \in DOMAIN transactionsMap :
        transactions[transactionsMap[k]].req.id = r

\* C7: every request's entry eventually leaves the table, and once no
\* more requests arrive the table becomes and stays empty.
C7_Bounded ==
    /\ \A r \in 1..MaxMsgs : InTable(r) ~> ~InTable(r)
    /\ <>[](DOMAIN transactionsMap = {})

\* an entry was removed by its timer although no response was handled
C7_Expired ==
    /\ \E e \in expired : e.victim = e.timer
    /\ results.sent = <<>>
    /\ warns.unknownResponse = 0
    /\ DOMAIN transactionsMap = {}

\* m is req overlaid by resp
IsOverlay(m, req, resp) ==
    /\ DOMAIN m = DOMAIN req \cup DOMAIN resp
    /\ \A k \in DOMAIN req \ DOMAIN resp : m[k] = req[k]
    /\ \A k \in DOMAIN resp : m[k] = resp[k]

C9_ResponseTime ==
    \A ev \in Events :
        /\ ev.responsetime * NanosPerMilli <= ev.resp.Ts - ev.req.Ts
              \/ ev.resp.Ts < ev.req.Ts
        /\ ev.resp.Ts >= ev.req.Ts
              => (ev.resp.Ts - ev.req.Ts) - ev.responsetime * NanosPerMilli
                     < NanosPerMilli
        /\ ev.req.pktno < ev.resp.pktno => ev.responsetime >= 0

\* a step that calls Parse, and an iteration of its loop
ParseStep == npkts' = npkts + 1
LoopStep == pc = "loop" /\ timers' = timers

\* data starts with a whole message the decoder accepts
ValidHead(data) ==
    /\ Len(data) >= HeaderLen
    /\ data[1] >= HeaderLen
    /\ Len(data) >= data[1]
    /\ data[4] \in OpCodes \ {OP_RESERVED}

\* C10: a Parse call whose append takes the pending data of a direction
\* over the ceiling discards the stream and hands nothing to the
\* correlator; the next Parse call of the direction starts a stream that
\* holds that packet's payload alone, and a whole valid message at its
\* head is handed to the correlator.
C10_Oversize ==
    [][/\ ParseStep /\ priv[pkt'.conn][pkt'.dir] # <<>>
            /\ Len(priv[pkt'.conn][pkt'.dir][1].data) + Len(pkt'.Payload)
                  > TCP_MAX_DATA_IN_STREAM
            => /\ priv'[pkt'.conn][pkt'.dir] = <<>>
               /\ pc' = "idle"
               /\ nmsgs' = nmsgs
               /\ UNCHANGED corrVars
       /\ ParseStep /\ dropLog[pkt'.conn][pkt'.dir] = "oversize"
            => /\ priv'[pkt'.conn][pkt'.dir] =
                     <<[data |-> pkt'.Payload, message |-> NewMessage(pkt'.Ts)]>>
               /\ pc' = "loop"
       /\ LoopStep /\ dropLog[pkt.conn][pkt.dir] = "fresh"
            /\ ValidHead(priv[pkt.conn][pkt.dir][1].data)
            => /\ nmsgs' = nmsgs + 1
               /\ cur'.msg.messageLength = priv[pkt.conn][pkt.dir][1].data[1]
               /\ cur'.msg.Ts = pkt.Ts
               /\ cur'.msg.pktno = npkts
      ]_vars

\* a message was handed to the correlator from the stream started after an
\* oversize discard
C10_Recovered ==
    \E c \in ParseConns, d \in Dirs : dropLog[c][d] = "recovered"

\* the words of the current stream of direction d of connection c that
\* its completed messages have not taken
Unconsumed(c, d) ==
    SubSeq(streamLog[c][d].fed,
           streamLog[c][d].base + streamLog[c][d].consumed + 1,
           Len(streamLog[c][d].fed))

\* a step of Parse's loop that hands a message to handleMongodb
CompleteStep == pc = "loop" /\ DispatchStep

\* C12: while a direction has a stream, its pending words are the words
\* appended to it without those its completed messages took, each message
\* taking exactly messageLength words from the front; and a message is
\* handed on only when at least messageLength words are pending.
C12_Consumption ==
    /\ [](\A c \in ParseConns, d \in Dirs :
            priv[c][d] # <<>> => priv[c][d][1].data = Unconsumed(c, d))
    /\ [][CompleteStep
            => /\ cur'.msg.messageLength >= HeaderLen
               /\ cur'.msg.messageLength <= Len(priv[pkt.conn][pkt.dir][1].data)
       ]_vars

\* after a completed message the stream holds the first words of the next
C12_Remainder ==
    /\ pc = "idle"
    /\ \E c \in ParseConns, d \in Dirs :
          /\ priv[c][d] # <<>>
          /\ streamLog[c][d].consumed > 0
          /\ Len(priv[c][d][1].data) \in 1..(HeaderLen - 1)
          /\ streamLog[c][d].handed # <<>>

\* what the decoder extracts, without the capture time and the call's number
Content(m) ==
    [messageLength |-> m.messageLength, IsResponse |-> m.IsResponse,
     method |-> m.method, error |-> m.error, event |-> m.event]

ContentSeq(ms) == [i \in 1..Len(ms) |-> Content(ms[i])]

\* the messages Parse's loop completes when data arrives in one packet
RECURSIVE OnePacket(_)
OnePacket(data) ==
    LET r == MessageParser(NewStream(data, 0))
    IN IF Len(data) > 0 /\ r.ok /\ r.complete
       THEN <<Content(r.message)>>
            \o OnePacket(SubSeq(data, r.message.messageLength + 1, Len(data)))
       ELSE <<>>

\* C13: whatever the packets a stream of valid messages is cut into, when
\* a Parse call has returned the messages handed on so far are, in order,
\* those that the words delivered so far yield when they arrive in one
\* packet; during a call they are the first of them.
C13_Incremental ==
    \A c \in ParseConns, d \in Dirs :
        (\E s \in ValidStreams : IsPrefix(streamLog[c][d].fed, s))
          => /\ IsPrefix(ContentSeq(streamLog[c][d].handed),
                         OnePacket(streamLog[c][d].fed))
             /\ pc = "idle"
                  => ContentSeq(streamLog[c][d].handed)
                       = OnePacket(streamLog[c][d].fed)

\* a stream of two messages was delivered in three packets, the first cut
\* inside the first header and the second inside the second header, and
\* both messages were handed on
C13_SplitDelivered ==
    /\ pc = "idle"
    /\ npkts = 3
    /\ \E c \in ParseConns, d \in Dirs, s \in ValidStreams :
          /\ streamLog[c][d].fed = s
          /\ Len(streamLog[c][d].handed) = 2
          /\ streamLog[c][d].handed[1].pktno = 2
          /\ streamLog[c][d].handed[2].pktno = 3
          /\ priv[c][d][1].data = <<>>

\* C11: a step of a Parse call changes no stream but that of the call's
\* own connection and direction, whether it creates, extends or discards
\* the stream or completes a message on it; and a direction of a
\* connection never holds more than one stream.
C11_Independence ==
    /\ [][\A c \in Conns, d \in Dirs :
            priv'[c][d] # priv[c][d] => pkt'.conn = c /\ pkt'.dir = d]_vars
    /\ [](\A c \in Conns : DOMAIN priv[c] = Dirs
                           /\ \A d \in Dirs : Len(priv[c][d]) <= 1)

\* an oversize discard on one direction has just left the pending words
\* and the message in progress of the other direction in place
C11_OtherKept ==
    /\ pc = "idle"
    /\ \E c \in ParseConns, d \in Dirs :
          /\ pkt.conn = c /\ pkt.dir = d
          /\ dropLog[c][d] = "oversize"
          /\ priv[c][d] = <<>>
          /\ priv[c][1 - d] # <<>>
          /\ Len(priv[c][1 - d][1].data) > 0

\* what the decoder reports on the stream of the packet being parsed
Decoded == MessageParser(priv[pkt.conn][pkt.dir][1])

\* an iteration of Parse's loop in which the decoder needs more data
NeedMoreStep ==
    /\ LoopStep
    /\ Len(priv[pkt.conn][pkt.dir][1].data) > 0
    /\ Decoded.ok /\ ~Decoded.complete

\* C14: when the decoder reports that the message in progress needs more
\* data, the Parse call returns; the direction keeps its pending words and
\* the message in progress as the decoder left it; nothing is handed to
\* the correlator, and the correlation table, the transactions, the timers
\* and the published records are unchanged.
C14_NeedMore ==
    [][NeedMoreStep
         => /\ pc' = "idle"
            /\ priv'[pkt.conn][pkt.dir] # <<>>
            /\ priv'[pkt.conn][pkt.dir][1].data = priv[pkt.conn][pkt.dir][1].data
            /\ priv'[pkt.conn][pkt.dir][1].message = Decoded.message
            /\ nmsgs' = nmsgs
            /\ cur' = cur
            /\ UNCHANGED corrVars]_vars

\* a Parse call has returned with the first words of a message pending and
\* nothing handed on
C14_Waiting ==
    /\ pc = "idle"
    /\ npkts = 1
    /\ nmsgs = 0
    /\ priv[pkt.conn][pkt.dir] # <<>>
    /\ priv[pkt.conn][pkt.dir][1].data = pkt.Payload
    /\ Len(pkt.Payload) = HeaderLen
    /\ priv[pkt.conn][pkt.dir][1].message.Ts = pkt.Ts

\* C15: every message handed to the correlator carries the capture time
\* of the packet whose Parse call completed it, which is the packet that
\* delivered the last word the message took.
C15_Timestamp ==
    \A c \in ParseConns, d \in Dirs :
        \A i \in 1..Len(streamLog[c][d].handed) :
            streamLog[c][d].handed[i].Ts = streamLog[c][d].handed[i].pktno * Tick

\* C16: without a results channel, the response handler's last step
\* publishes nothing and goes on to its return; it removes the entry of
\* the transaction's connection from the table, and the transaction's timer
\* is stopped if it had not fired, as with a channel attached.
C16_NoSink ==
    [][PublishStep /\ ~results.attached
         => /\ results' = results
            /\ pc' \in {"idle", "loop"}
            /\ Hashable(transactions[cur.trans].tuple) \notin DOMAIN transactionsMap'
            /\ transactions'[cur.trans].closed
            /\ timers' = StopTimer(timers, transactions[cur.trans].timer)
            /\ timers'[transactions[cur.trans].timer].state # "armed"
            /\ warns' = warns]_vars

\* without a channel, a response has just closed the transaction of its
\* request: the entry is gone, the timer is stopped, nothing was published
C16_ClosedUnpublished ==
    /\ pc = "idle"
    /\ ~results.attached
    /\ cur.msg.id # 0
    /\ cur.msg.IsResponse
    /\ cur.trans # 0
    /\ transactions[cur.trans].closed
    /\ timers[transactions[cur.trans].timer].state = "stopped"
    /\ ConnKey(cur.msg) \notin DOMAIN transactionsMap
    /\ results.sent = <<>>

\* the timers of the connection with key k whose callback can still run
Outstanding(k) ==
    {id \in DOMAIN timers :
        /\ timers[id].state \in {"armed", "fired"}
        /\ Hashable(transactions[timers[id].trans].tuple) = k}

\* C17: a connection never has more than one timer whose callback can
\* still run, and no entry that holds a superseding request is removed by
\* the timer armed for the request it superseded.
C17_SingleTimer ==
    /\ \A k \in Keys : Cardinality(Outstanding(k)) <= 1
    /\ \A e \in expired : \A p \in superseded :
          ~(p[1].id = e.timer /\ p[2].id = e.victim)

\* C18: when no Parse call is in progress, no stream holds more pending
\* words than the ceiling.
C18_Bound ==
    pc = "idle"
      => \A c \in Conns, d \in Dirs :
            priv[c][d] # <<>>
              => Len(priv[c][d][1].data) <= TCP_MAX_DATA_IN_STREAM

\* the loop of Parse is entered again after an iteration that completed a
\* message
NextIteration ==
    /\ pc # "idle"
    /\ pc' = "loop"
    /\ pc' # pc \/ nmsgs' # nmsgs

\* C19: every iteration of Parse's loop either ends the call or hands a
\* message on, after which the loop is entered again with strictly fewer
\* pending words; the call ends only when no word is pending, when the
\* decoder needs more data or when the stream was discarded; and every
\* Parse call that has entered its loop returns.
C19_Terminates ==
    /\ [][NextIteration
            => Len(priv'[pkt.conn][pkt.dir][1].data)
                  < Len(priv[pkt.conn][pkt.dir][1].data)]_vars
    /\ [][LoopStep /\ pc' # "idle" => DispatchStep]_vars
    /\ [][LoopStep /\ pc' = "idle"
            => \/ Len(priv[pkt.conn][pkt.dir][1].data) = 0
               \/ priv'[pkt.conn][pkt.dir] = <<>>
               \/ Decoded.ok /\ ~Decoded.complete]_vars
    /\ (pc = "loop") ~> (pc = "idle")

\* a Parse call whose packet carried two messages has returned after it
\* handed both on
C19_TwoIterations ==
    /\ pc = "idle"
    /\ npkts = 1
    /\ nmsgs = 2
    /\ priv[pkt.conn][pkt.dir] # <<>>
    /\ priv[pkt.conn][pkt.dir][1].data = <<>>
    /\ Len(pkt.Payload) = 2 * HeaderLen

\* the transaction stored under key k
Entry(k) == transactions[transactionsMap[k]]

\* C20: when no handler call is in progress, the entries of the table
\* belong to different connections, each under the key of its own
\* connection; every entry is OPEN and has a timer that is armed or has
\* fired and whose callback has not run yet; and the response handler
\* never finds an entry that is not OPEN.
C20_Table ==
    /\ [](pc \in {"idle", "loop"}
            => \A k \in DOMAIN transactionsMap :
                  /\ Hashable(Entry(k).tuple) = k
                  /\ \A k2 \in DOMAIN transactionsMap :
                        Entry(k2).tuple = Entry(k).tuple => k2 = k
                  /\ Entry(k).Mongodb # NIL
                  /\ Entry(k).req.id # 0
                  /\ Entry(k).timer # 0
                  /\ timers[Entry(k).timer].state \in {"armed", "fired"})
    /\ [][RespStep
            => \/ Lookup(cur'.msg) = 0
               \/ transactions[Lookup(cur'.msg)].Mongodb # NIL]_vars

\* the table holds the entries of two connections, one with its timer
\* armed and one whose timer has fired
C20_TwoEntries ==
    /\ pc = "idle"
    /\ \E k1, k2 \in DOMAIN transactionsMap :
          /\ timers[Entry(k1).timer].state = "armed"
          /\ timers[Entry(k2).timer].state = "fired"

====
